---- MODULE Spec2Model ----
(***************************************************************************)
(* Model of src/circuit_analysis_pro.tsx: the dense linear solver          *)
(* (Matrix.solve, Gaussian elimination with partial pivoting and a step    *)
(* trace) and the Modified Nodal Analysis built on it                      *)
(* (analyzeNodalMethod).                                                   *)
(*                                                                         *)
(* Numbers.  A JavaScript number is modelled by an exact rational n/d.     *)
(* n and d are integers written in base 10^10, least significant limb      *)
(* first, with signed limbs and no carries: <<3>> is 3, <<0, 1>> is 10^10, *)
(* <<5, -2>> is 5 - 2*10^10.  Every limb is far below the base in          *)
(* magnitude, so a value is zero iff all its limbs are, and the sign of a  *)
(* value is the sign of its most significant non-zero limb.  The base is   *)
(* chosen so that the solver's tolerance 1e-10 is the rational 1/<<0,1>>.  *)
(* Rounding of IEEE doubles is not modelled: arithmetic is exact.          *)
(***************************************************************************)
EXTENDS Integers, Sequences, FiniteSets, TLC

VARIABLES
    circuit,      \* the Circuit passed to analyzeNodalMethod (NoCircuit: solver called directly)
    pc,           \* position in analyzeNodalMethod / Matrix.solve
    steps,        \* analyzeNodalMethod: const steps: Step[]
    A,            \* the coefficient Matrix (this.data), rows and columns 0..n-1
    b,            \* the right-hand side b, 0..n-1
    augmented,    \* Matrix.solve: const augmented, rows 0..n-1, columns 0..n
    i,            \* Matrix.solve: the pivot stage of the forward-elimination loop
    solSteps,     \* Matrix.solve: const steps: string[][]
    solution,     \* Matrix.solve: the returned solution (NoSolution for null)
    result,       \* the value analyzeNodalMethod returned (NoResult before it returns)
    selectedExercise,  \* CircuitAnalysisPro: useState<number>(5)
    results,           \* CircuitAnalysisPro: useState<any>(null), NoResult for null
    showSteps,         \* CircuitAnalysisPro: useState<boolean>(true)
    downloads          \* the files handleExport has handed to the browser

\* the state of the component CircuitAnalysisPro and what it has downloaded
ui == <<selectedExercise, results, showSteps, downloads>>

vars == <<circuit, pc, steps, A, b, augmented, i, solSteps, solution, result,
          selectedExercise, results, showSteps, downloads>>

----------------------------------------------------------------------------
(* Integers in base 10^10 *)

Abs(x) == IF x < 0 THEN -x ELSE x

Sgn(x) == IF x < 0 THEN -1 ELSE IF x > 0 THEN 1 ELSE 0

Max(x, y) == IF x > y THEN x ELSE y

Min(x, y) == IF x < y THEN x ELSE y

RECURSIVE Gcd(_, _)
Gcd(x, y) == IF y = 0 THEN x ELSE Gcd(y, x % y)

RECURSIVE LStrip(_)
LStrip(s) ==
    IF Len(s) > 1 /\ s[Len(s)] = 0 THEN LStrip(SubSeq(s, 1, Len(s) - 1)) ELSE s

LGet(s, j) == IF j >= 1 /\ j <= Len(s) THEN s[j] ELSE 0

LIsZero(s) == \A j \in 1..Len(s) : s[j] = 0

LNeg(s) == [j \in 1..Len(s) |-> -s[j]]

LAdd(s, t) == LStrip([j \in 1..Max(Len(s), Len(t)) |-> LGet(s, j) + LGet(t, j)])

LSub(s, t) == LAdd(s, LNeg(t))

RECURSIVE LConv(_, _, _, _)
LConv(s, t, k, j) ==
    IF j > Len(s) THEN 0 ELSE s[j] * LGet(t, k + 1 - j) + LConv(s, t, k, j + 1)

LMul(s, t) == LStrip([k \in 1..(Len(s) + Len(t) - 1) |-> LConv(s, t, k, 1)])

LSign(s) == Sgn(LStrip(s)[Len(LStrip(s))])

RECURSIVE LGcd(_, _)
LGcd(s, j) == IF j > Len(s) THEN 0 ELSE Gcd(Abs(s[j]), LGcd(s, j + 1))

LDivAll(s, g) == [j \in 1..Len(s) |-> s[j] \div g]

RECURSIVE LLowZeros(_, _)
LLowZeros(s, j) == IF j >= Len(s) \/ s[j] # 0 THEN j - 1 ELSE LLowZeros(s, j + 1)

LDrop(s, z) == SubSeq(s, z + 1, Len(s))

----------------------------------------------------------------------------
(* Rationals: [n |-> numerator, d |-> denominator], d > 0, in lowest terms *)
(* as far as the limbs' common factor and common power of the base go.     *)
(* A zero denominator records a division by zero (Infinity or NaN).        *)

\* n / d with the low limbs both are zero in dropped (a common power of the base)
RatMake(n, d, z) ==
    IF LIsZero(d) THEN [n |-> <<LSign(n)>>, d |-> <<0>>]
    ELSE IF LIsZero(n) THEN [n |-> <<0>>, d |-> <<1>>]
    ELSE IF n = d THEN [n |-> <<1>>, d |-> <<1>>]
    ELSE IF n = LNeg(d) THEN [n |-> <<-1>>, d |-> <<1>>]
    ELSE [n |-> LDrop(n, z), d |-> LDrop(d, z)]

\* n / d with the common factor g of all limbs divided out
RatReduce(n, d, g) ==
    RatMake(LDivAll(n, g), LDivAll(d, g),
            Min(LLowZeros(LDivAll(n, g), 1), LLowZeros(LDivAll(d, g), 1)))

\* n / d with sign s of d moved to the numerator
RatSigned(n, d, s) ==
    RatReduce(IF s < 0 THEN LNeg(n) ELSE n, IF s < 0 THEN LNeg(d) ELSE d,
              Max(1, Gcd(LGcd(n, 1), LGcd(d, 1))))

Rat(n, d) == RatSigned(LStrip(n), LStrip(d), LSign(d))

Num(k) == [n |-> <<k>>, d |-> <<1>>]

Frac(k, m) == Rat(<<k>>, <<m>>)

Zero == Num(0)

One == Num(1)

BothSmall(x, y) ==
    /\ Len(x.n) = 1 /\ Len(x.d) = 1 /\ Len(y.n) = 1 /\ Len(y.d) = 1
    /\ x.d[1] # 0 /\ y.d[1] # 0

\* x + y; single-limb operands go through the least common denominator
RAdd(x, y) ==
    Rat(IF BothSmall(x, y)
        THEN <<x.n[1] * (y.d[1] \div Gcd(x.d[1], y.d[1]))
                 + y.n[1] * (x.d[1] \div Gcd(x.d[1], y.d[1]))>>
        ELSE LAdd(LMul(x.n, y.d), LMul(y.n, x.d)),
        IF BothSmall(x, y)
        THEN <<(x.d[1] \div Gcd(x.d[1], y.d[1])) * y.d[1]>>
        ELSE LMul(x.d, y.d))

RNeg(x) == [n |-> LNeg(x.n), d |-> x.d]

RSub(x, y) == RAdd(x, RNeg(y))

\* x * y; single-limb operands are cross-cancelled first
RMul(x, y) ==
    Rat(IF BothSmall(x, y) /\ x.n[1] # 0 /\ y.n[1] # 0
        THEN <<(x.n[1] \div Gcd(Abs(x.n[1]), y.d[1])) * (y.n[1] \div Gcd(Abs(y.n[1]), x.d[1]))>>
        ELSE LMul(x.n, y.n),
        IF BothSmall(x, y) /\ x.n[1] # 0 /\ y.n[1] # 0
        THEN <<(x.d[1] \div Gcd(Abs(y.n[1]), x.d[1])) * (y.d[1] \div Gcd(Abs(x.n[1]), y.d[1]))>>
        ELSE LMul(x.d, y.d))

\* 1 / x
RInv(x) ==
    IF LSign(x.n) < 0 THEN [n |-> LNeg(x.d), d |-> LNeg(x.n)] ELSE [n |-> x.d, d |-> x.n]

RDiv(x, y) == RMul(x, RInv(y))

RSign(x) == LSign(x.n)

\* Math.abs
RAbs(x) == IF RSign(x) < 0 THEN RNeg(x) ELSE x

REq(x, y) == LMul(x.n, y.d) = LMul(y.n, x.d)

RLt(x, y) == LSign(LSub(LMul(x.n, y.d), LMul(y.n, x.d))) < 0

RGt(x, y) == RLt(y, x)

RLe(x, y) == ~RLt(y, x)

IsFinite(x) == ~LIsZero(x.d)

\* the tolerance 1e-10 of Matrix.solve
Tol == [n |-> <<1>>, d |-> <<0, 1>>]

----------------------------------------------------------------------------
(* class Matrix: solve *)

\* solve returns { solution: number[] | null, steps }: null is [null |-> TRUE]
NoSolution == [null |-> TRUE, x |-> <<>>]

SolutionOf(x) == [null |-> FALSE, x |-> x]

Dim(M) == Cardinality(DOMAIN M)

\* const augmented = this.data.map((row, i) => [...row, b[i]])
Augment(M, rhs) ==
    [r \in DOMAIN M |->
        [c \in 0..Dim(M) |-> IF c < Dim(M) THEN M[r][c] ELSE rhs[r]]]

\* a scan that keeps the last row of largest magnitude (>= for >)
RECURSIVE MaxRowScanLast(_, _, _, _)
MaxRowScanLast(aug, col, k, maxRow) ==
    IF k >= Dim(aug) THEN maxRow
    ELSE MaxRowScanLast(aug, col, k + 1,
                        IF RLe(RAbs(aug[maxRow][col]), RAbs(aug[k][col])) THEN k ELSE maxRow)

\* the scan of lines 92-97: the first row of largest magnitude in column col
RECURSIVE MaxRowScan(_, _, _, _)
MaxRowScan(aug, col, k, maxRow) ==
    IF k >= Dim(aug) THEN maxRow
    ELSE MaxRowScan(aug, col, k + 1,
                    IF RGt(RAbs(aug[k][col]), RAbs(aug[maxRow][col])) THEN k ELSE maxRow)

PivotRowLast(aug, col) == MaxRowScanLast(aug, col, col + 1, col)

PivotRow(aug, col) == MaxRowScan(aug, col, col + 1, col)

\* [augmented[i], augmented[maxRow]] = [augmented[maxRow], augmented[i]]
SwapRows(aug, r1, r2) == [aug EXCEPT ![r1] = aug[r2], ![r2] = aug[r1]]

\* a solver that declares only a pivot of exactly 0 singular
IsSingularPivotZero(aug, col) == RSign(aug[col][col]) = 0

\* a solver that never declares a pivot singular
IsSingularPivotNever(aug, col) == FALSE

\* Math.abs(augmented[i][i]) < 1e-10
IsSingularPivot(aug, col) == RLt(RAbs(aug[col][col]), Tol)

\* an elimination that applies every factor other than 0
FactorCountsNonZero(factor) == RSign(factor) # 0

\* Math.abs(factor) > 1e-10
FactorCounts(factor) == RGt(RAbs(factor), Tol)

\* an elimination that stops before the augmented column (j < n)
EliminateRowNoRhs(aug, col, k, factor) ==
    [aug EXCEPT ![k] =
        [j \in DOMAIN aug[k] |->
            IF j >= col /\ j < Dim(aug)
            THEN RSub(aug[k][j], RMul(factor, aug[col][j])) ELSE aug[k][j]]]

\* for (let j = i; j <= n; j++) augmented[k][j] -= factor * augmented[i][j]
EliminateRow(aug, col, k, factor) ==
    [aug EXCEPT ![k] =
        [j \in DOMAIN aug[k] |->
            IF j >= col THEN RSub(aug[k][j], RMul(factor, aug[col][j])) ELSE aug[k][j]]]

\* lines 110-119 for row k: the matrix after the row update, with its record,
\* when the factor counts; nothing otherwise
EliminateStep(aug, recs, col, k, factor) ==
    IF FactorCounts(factor)
    THEN [aug   |-> EliminateRow(aug, col, k, factor),
          steps |-> Append(recs, [kind |-> "eliminate", stage |-> col, row |-> k,
                                  factor |-> factor,
                                  aug |-> EliminateRow(aug, col, k, factor)])]
    ELSE [aug |-> aug, steps |-> recs]

\* the loop of lines 109-120 from row k on: the matrix and the records it leaves
RECURSIVE EliminateBelow(_, _, _, _)
EliminateBelow(done, pivot, col, k) ==
    IF k >= Dim(done.aug) THEN done
    ELSE EliminateBelow(
             EliminateStep(done.aug, done.steps, col, k, RDiv(done.aug[k][col], pivot)),
             pivot, col, k + 1)

\* x[i] = augmented[i][n] - sum over j > i of augmented[i][j] * x[j]
RECURSIVE BackSum(_, _, _, _)
BackSum(aug, x, row, j) ==
    IF j >= Dim(aug) THEN aug[row][Dim(aug)]
    ELSE RSub(BackSum(aug, x, row, j + 1), RMul(aug[row][j], x[j]))

\* the loop of lines 127-133, from row `row` down to 0
RECURSIVE BackSubstitute(_, _, _)
BackSubstitute(aug, x, row) ==
    IF row < 0 THEN x
    ELSE BackSubstitute(aug,
             [x EXCEPT ![row] = RDiv(BackSum(aug, x, row, row + 1), aug[row][row])],
             row - 1)

\* a solver whose augmented rows are the rows of this.data themselves
DataShared(data, aug) ==
    [r \in DOMAIN data |-> [c \in DOMAIN data[r] |-> aug[r][c]]]

\* line 84: this.data after a write to augmented, whose rows [...row, b[i]] are
\* fresh arrays
DataAfter(data, aug) == data

\* lines 83-87: entry of solve
SolveBegin ==
    /\ pc = "solve"
    /\ augmented' = Augment(A, b)
    /\ solSteps' = <<[kind |-> "initial", aug |-> Augment(A, b)]>>
    /\ i' = 0
    /\ pc' = IF 0 < Dim(A) THEN "pivot" ELSE "back"
    /\ UNCHANGED <<circuit, steps, A, b, solution, result>>
    /\ UNCHANGED ui

\* lines 92-106: pivot search, row swap and the singularity test of stage i
SolvePivot ==
    /\ pc = "pivot"
    /\ LET maxRow  == PivotRow(augmented, i)
           swapped == IF maxRow # i THEN SwapRows(augmented, i, maxRow) ELSE augmented
           recs    == IF maxRow # i
                      THEN Append(solSteps, [kind |-> "swap", stage |-> i, row |-> i,
                                             maxRow |-> maxRow, aug |-> swapped])
                      ELSE solSteps
       IN  /\ augmented' = swapped
           /\ solSteps' = recs
           /\ IF IsSingularPivot(swapped, i)
              THEN /\ solution' = NoSolution
                   /\ pc' = "singular"
              ELSE /\ solution' = solution
                   /\ pc' = "eliminate"
    /\ A' = DataAfter(A, augmented')
    /\ UNCHANGED <<circuit, steps, b, i, result>>
    /\ UNCHANGED ui

\* lines 109-121: elimination below the pivot of stage i, then i++
SolveEliminate ==
    /\ pc = "eliminate"
    /\ \E done \in {EliminateBelow([aug |-> augmented, steps |-> solSteps],
                                    augmented[i][i], i, i + 1)} :
          /\ augmented' = done.aug
          /\ solSteps' = done.steps
    /\ i' = i + 1
    /\ pc' = IF i + 1 < Dim(A) THEN "pivot" ELSE "back"
    /\ A' = DataAfter(A, augmented')
    /\ UNCHANGED <<circuit, steps, b, solution, result>>
    /\ UNCHANGED ui

\* lines 123-137: back substitution and the successful return
SolveBack ==
    /\ pc = "back"
    /\ solution' =
          SolutionOf(BackSubstitute(augmented, [r \in DOMAIN A |-> Zero], Dim(A) - 1))
    /\ solSteps' = solSteps \o <<[kind |-> "echelon", aug |-> augmented],
                                 [kind |-> "back", x |-> solution'.x]>>
    /\ pc' = "solved"
    /\ UNCHANGED <<circuit, steps, A, b, augmented, i, result>>
    /\ UNCHANGED ui

----------------------------------------------------------------------------
(* analyzeNodalMethod: assembly of the MNA system (lines 152-274) *)

\* the unit strings 'Ω', 'kΩ', 'MΩ', 'mΩ' are written "ohm", "kohm", "Mohm", "mohm"
Conversions ==
    [ohm  |-> [n |-> <<1>>, d |-> <<1>>],
     kohm |-> [n |-> <<1000>>, d |-> <<1>>],
     Mohm |-> [n |-> <<1000000>>, d |-> <<1>>],
     mohm |-> [n |-> <<1>>, d |-> <<1000>>]]

\* value * (conversions[unit] || 1)
convertToOhms(value, unit) ==
    RMul(value, IF unit \in {"ohm", "kohm", "Mohm", "mohm"} THEN Conversions[unit] ELSE One)

groundNode == "gnd"

\* circuit.nodes.filter(n => n.id !== groundNode)
Nodes(c) == SelectSeq(c.nodes, LAMBDA n : n.id # groundNode)

\* nodeMap.get(id): the 0-based position in nodes (of the last entry with that id)
NodeIndex(nodes, id) ==
    CHOOSE k \in 0..(Len(nodes) - 1) :
        /\ nodes[k + 1].id = id
        /\ \A m \in (k + 1)..(Len(nodes) - 1) : nodes[m + 1].id # id

VoltageSources(c) == SelectSeq(c.components, LAMBDA x : x.type = "VoltageSource")

Resistors(c) == SelectSeq(c.components, LAMBDA x : x.type = "Resistor")

\* { ...r, R, G: 1 / R }
Conductance(r, R) ==
    [id |-> r.id, type |-> r.type, nodes |-> r.nodes, value |-> r.value,
     unit |-> r.unit, R |-> R, G |-> RDiv(One, R)]

\* resistors.map(r => ({ ...r, R, G: 1 / R }))
Conductances(c) ==
    [k \in 1..Len(Resistors(c)) |->
        Conductance(Resistors(c)[k],
                    convertToOhms(Resistors(c)[k].value, Resistors(c)[k].unit))]

\* new Matrix(rows, cols)
MatrixNew(n) == [r \in 0..(n - 1) |-> [c \in 0..(n - 1) |-> Zero]]

\* Matrix.set
MatrixSet(M, r, c, v) == [M EXCEPT ![r][c] = v]

\* an add that overwrites the entry instead of accumulating
MatrixAddOverwrite(M, r, c, v) == [M EXCEPT ![r][c] = v]

\* Matrix.add
MatrixAdd(M, r, c, v) == [M EXCEPT ![r][c] = RAdd(@, v)]

\* a stamp whose mutual term has the sign of the self term
StampConductancePlus(M, nodes, idx, id, cond) ==
    IF cond.nodes[1] = id \/ cond.nodes[2] = id
    THEN LET otherNode == IF cond.nodes[1] = id THEN cond.nodes[2] ELSE cond.nodes[1]
         IN  IF otherNode = groundNode
             THEN MatrixAdd(M, idx, idx, cond.G)
             ELSE MatrixAdd(MatrixAdd(M, idx, idx, cond.G),
                            idx, NodeIndex(nodes, otherNode), cond.G)
    ELSE M

\* lines 203-217: what conductance cond adds to the row of node (idx, id)
StampConductance(M, nodes, idx, id, cond) ==
    IF cond.nodes[1] = id \/ cond.nodes[2] = id
    THEN LET otherNode == IF cond.nodes[1] = id THEN cond.nodes[2] ELSE cond.nodes[1]
         IN  IF otherNode = groundNode
             THEN MatrixAdd(M, idx, idx, cond.G)
             ELSE MatrixAdd(MatrixAdd(M, idx, idx, cond.G),
                            idx, NodeIndex(nodes, otherNode), RNeg(cond.G))
    ELSE M

\* conductances.forEach of lines 202-218, from the k-th conductance on
RECURSIVE StampConductances(_, _, _, _, _, _)
StampConductances(M, nodes, conds, idx, id, k) ==
    IF k > Len(conds) THEN M
    ELSE StampConductances(StampConductance(M, nodes, idx, id, conds[k]),
                           nodes, conds, idx, id, k + 1)

\* branch-current coefficients with the two polarities exchanged
StampSourceColumnFlipped(M, numNodes, idx, id, vs, vsIdx) ==
    IF vs.nodes[1] = id THEN MatrixSet(M, idx, numNodes + vsIdx, Num(-1))
    ELSE IF vs.nodes[2] = id THEN MatrixSet(M, idx, numNodes + vsIdx, Num(1))
    ELSE M

\* lines 222-229: the branch-current coefficient of source vsIdx in the row of node (idx, id)
StampSourceColumn(M, numNodes, idx, id, vs, vsIdx) ==
    IF vs.nodes[1] = id THEN MatrixSet(M, idx, numNodes + vsIdx, Num(1))
    ELSE IF vs.nodes[2] = id THEN MatrixSet(M, idx, numNodes + vsIdx, Num(-1))
    ELSE M

\* voltageSources.forEach of lines 221-230, from the k-th source on
RECURSIVE StampSourceColumns(_, _, _, _, _, _)
StampSourceColumns(M, numNodes, vss, idx, id, k) ==
    IF k > Len(vss) THEN M
    ELSE StampSourceColumns(StampSourceColumn(M, numNodes, idx, id, vss[k], k - 1),
                            numNodes, vss, idx, id, k + 1)

\* nodes.forEach of lines 197-234, from node idx on
RECURSIVE StampNodes(_, _, _, _, _)
StampNodes(M, nodes, conds, vss, idx) ==
    IF idx >= Len(nodes) THEN M
    ELSE LET id == nodes[idx + 1].id
             M1 == StampConductances(M, nodes, conds, idx, id, 1)
             M2 == StampSourceColumns(M1, Len(nodes), vss, idx, id, 1)
         IN  StampNodes(M2, nodes, conds, vss, idx + 1)

\* an equation row that leaves out the negative terminal when both are nodes
StampSourceRowPositiveOnly(M, nodes, vs, i0) ==
    IF vs.nodes[1] # groundNode
    THEN MatrixSet(M, Len(nodes) + i0, NodeIndex(nodes, vs.nodes[1]), Num(1))
    ELSE IF vs.nodes[2] # groundNode
    THEN MatrixSet(M, Len(nodes) + i0, NodeIndex(nodes, vs.nodes[2]), Num(-1))
    ELSE M

\* lines 238-253: the equation row of source i
StampSourceRow(M, nodes, vs, i0) ==
    LET numNodes == Len(nodes)
        posIdx == IF vs.nodes[1] = groundNode THEN -1 ELSE NodeIndex(nodes, vs.nodes[1])
        negIdx == IF vs.nodes[2] = groundNode THEN -1 ELSE NodeIndex(nodes, vs.nodes[2])
    IN  IF posIdx >= 0 /\ negIdx >= 0
        THEN MatrixSet(MatrixSet(M, numNodes + i0, posIdx, Num(1)),
                       numNodes + i0, negIdx, Num(-1))
        ELSE IF posIdx >= 0 THEN MatrixSet(M, numNodes + i0, posIdx, Num(1))
        ELSE IF negIdx >= 0 THEN MatrixSet(M, numNodes + i0, negIdx, Num(-1))
        ELSE M

\* voltageSources.forEach of lines 237-257, from the k-th source on
RECURSIVE StampSourceRows(_, _, _, _)
StampSourceRows(M, nodes, vss, k) ==
    IF k > Len(vss) THEN M
    ELSE StampSourceRows(StampSourceRow(M, nodes, vss[k], k - 1), nodes, vss, k + 1)

\* the matrix A after lines 193-257
AssembleA(c) ==
    StampSourceRows(
        StampNodes(MatrixNew(Len(Nodes(c)) + Len(VoltageSources(c))),
                   Nodes(c), Conductances(c), VoltageSources(c), 0),
        Nodes(c), VoltageSources(c), 1)

\* a right-hand side into which every current source injects its value at its
\* second terminal
AssembleBInjecting(c) ==
    [r \in 0..(Len(Nodes(c)) + Len(VoltageSources(c)) - 1) |->
        IF r >= Len(Nodes(c))
        THEN VoltageSources(c)[r - Len(Nodes(c)) + 1].value
        ELSE IF \E k \in 1..Len(c.components) :
                    /\ c.components[k].type = "CurrentSource"
                    /\ c.components[k].nodes[2] = Nodes(c)[r + 1].id
             THEN Num(1) ELSE Zero]

\* the vector b after lines 194 and 255
AssembleB(c) ==
    [r \in 0..(Len(Nodes(c)) + Len(VoltageSources(c)) - 1) |->
        IF r >= Len(Nodes(c))
        THEN VoltageSources(c)[r - Len(Nodes(c)) + 1].value ELSE Zero]

\* the terms of the KCL equation of node (idx, id), lines 198-233
NodeEquation(id, idx, conds, vss) ==
    [node |-> id,
     terms |-> [k \in 1..Len(conds) |-> [G |-> conds[k].id, V |-> idx + 1]]
               \o [k \in 1..Len(vss) |->
                      [I |-> vss[k].vsIdx + 1,
                       sign |-> IF vss[k].vs.nodes[1] = id THEN "+" ELSE "-"]]]

\* the conductances and the sources (with their indices) that touch node id
TouchingConductances(conds, id) ==
    SelectSeq(conds, LAMBDA x : x.nodes[1] = id \/ x.nodes[2] = id)

TouchingSources(vss, id) ==
    SelectSeq([k \in 1..Len(vss) |-> [vs |-> vss[k], vsIdx |-> k - 1]],
              LAMBDA x : x.vs.nodes[1] = id \/ x.vs.nodes[2] = id)

\* the four records pushed by lines 164-274, for the assembled system (M, rhs)
AssemblyRecords(nodes, vss, conds, M, rhs) ==
    << [title |-> "1. IDENTIFICACION Y ANALISIS DEL CIRCUITO",
        equations |-> <<>>],
       [title |-> "2. CONVERSION A CONDUCTANCIAS",
        equations |-> [k \in 1..Len(conds) |->
                          [id |-> conds[k].id, R |-> conds[k].R, G |-> conds[k].G]]],
       [title |-> "3. PLANTEAMIENTO DE ECUACIONES NODALES",
        equations |-> [k \in 1..Len(nodes) |->
                          NodeEquation(nodes[k].id, k - 1,
                                       TouchingConductances(conds, nodes[k].id),
                                       TouchingSources(vss, nodes[k].id))]
                      \o [k \in 1..Len(vss) |->
                             [source |-> vss[k].id, value |-> vss[k].value]]],
       [title |-> "4. SISTEMA MATRICIAL [A][x] = [b]",
        matrix |-> <<[A |-> M, b |-> rhs]>>] >>

AssemblySteps(c) ==
    AssemblyRecords(Nodes(c), VoltageSources(c), Conductances(c),
                    AssembleA(c), AssembleB(c))

\* lines 152-274: everything up to the call of A.solve(b)
AnalyzeAssemble ==
    /\ pc = "start"
    /\ A' = AssembleA(circuit)
    /\ b' = AssembleB(circuit)
    /\ steps' = AssemblyRecords(Nodes(circuit), VoltageSources(circuit),
                                Conductances(circuit), A', b')
    /\ pc' = "solve"
    /\ UNCHANGED <<circuit, augmented, i, solSteps, solution, result>>
    /\ UNCHANGED ui

----------------------------------------------------------------------------
(* Matrix.solve called on its own, on square systems of bounded size *)

NoCircuit == [name |-> "none", nodes |-> <<>>, components |-> <<>>]

NoResult == [none |-> TRUE]

\* lines 401-403: the component as it is mounted, with nothing downloaded
UiAtRest ==
    /\ selectedExercise = 5
    /\ results = NoResult
    /\ showSteps = TRUE
    /\ downloads = <<>>

MaxEntry == 1

\* 10^10, a magnitude at which a quotient by 1 meets the tolerance
Huge == [n |-> <<0, 1>>, d |-> <<1>>]

Entries == {Num(k) : k \in -MaxEntry..MaxEntry}

WideEntries == {Num(0), Num(1), Num(-1), Huge}

Systems(n, vals) ==
    {[A |-> M, b |-> v] : M \in [0..(n - 1) -> [0..(n - 1) -> vals]],
                          v \in [0..(n - 1) -> vals]}

Bits == {Num(0), Num(1)}

\* 1, the tolerance itself, and a third of it
TinyEntries == {Num(1), Tol, RInv(RMul(Num(3), Huge))}

\* 3x3 systems of 0s and 1s whose first column is 10^10, 1, 0 or 1: the factor of
\* row 1 at stage 0 is exactly the tolerance
SkewSystems ==
    {[A |-> [sys.A EXCEPT ![0][0] = Huge, ![1][0] = Num(1)], b |-> sys.b] :
        sys \in Systems(3, Bits)}

SolverInputs ==
    Systems(1, Entries) \cup Systems(2, Entries) \cup Systems(2, WideEntries)
        \cup Systems(3, Bits) \cup Systems(1, TinyEntries) \cup Systems(2, TinyEntries)
        \cup SkewSystems

InitSolve ==
    /\ circuit = NoCircuit
    /\ \E sys \in SolverInputs : A = sys.A /\ b = sys.b
    /\ pc = "solve"
    /\ steps = <<>>
    /\ augmented = <<>>
    /\ i = 0
    /\ solSteps = <<>>
    /\ solution = NoSolution
    /\ result = NoResult
    /\ UiAtRest

NextSolve == SolveBegin \/ SolvePivot \/ SolveEliminate \/ SolveBack

SpecSolve == InitSolve /\ [][NextSolve]_vars

\* every value the solver has computed is finite (no division by zero happened)
SolveFinite ==
    /\ \A r \in DOMAIN augmented : \A c \in DOMAIN augmented[r] : IsFinite(augmented[r][c])
    /\ \A r \in DOMAIN solution.x : IsFinite(solution.x[r])

----------------------------------------------------------------------------
(* Properties of Matrix.solve *)

\* sum over j >= c of M[r][j] * x[j]
RECURSIVE RowDot(_, _, _, _)
RowDot(M, x, r, c) ==
    IF c >= Dim(M) THEN Zero ELSE RAdd(RMul(M[r][c], x[c]), RowDot(M, x, r, c + 1))

SolvesSystem(M, rhs, x) == \A r \in DOMAIN M : REq(RowDot(M, x, r, 0), rhs[r])

\* every entry below the diagonal is zero
UpperTriangular(aug) ==
    \A r \in DOMAIN aug : \A c \in DOMAIN aug : c < r => RSign(aug[r][c]) = 0

HasRecord(recs, kind) == \E k \in 1..Len(recs) : recs[k].kind = kind

\* C1 as stated: whenever solve returns a solution x, x solves the original
\* system A.x = b exactly, whatever rows were swapped.
C1_SolutionSolvesOriginal ==
    pc = "solved" => SolvesSystem(A, b, solution.x)

\* C1 amended: whenever solve returns a solution x and no non-zero factor was
\* left unapplied for being at most 1e-10 in magnitude (the echelon matrix is
\* upper triangular), x solves the original system A.x = b exactly.
C1_SolutionSolvesOriginalUnlessSkipped ==
    (pc = "solved" /\ UpperTriangular(augmented)) => SolvesSystem(A, b, solution.x)

\* a 3x3 system solved after a row swap and an elimination
C1_Witness ==
    /\ pc = "solved"
    /\ Dim(A) = 3
    /\ UpperTriangular(augmented)
    /\ HasRecord(solSteps, "swap")
    /\ HasRecord(solSteps, "eliminate")
    /\ SolvesSystem(A, b, solution.x)

InSolve == pc \in {"solve", "pivot", "eliminate", "back"}

\* C12: no step of Matrix.solve, whatever it swaps or eliminates and whether
\* it ends with a solution or with the singular outcome, changes an entry of
\* the caller's matrix or of the vector b.
C12_SolveLeavesInputs ==
    [][InSolve => (A' = A /\ b' = b)]_vars

\* a solved system whose augmented copy no longer agrees with the matrix
C12_Witness ==
    /\ pc = "solved"
    /\ HasRecord(solSteps, "swap")
    /\ HasRecord(solSteps, "eliminate")
    /\ \E r \in DOMAIN A : \E c \in DOMAIN A[r] : augmented[r][c] # A[r][c]
    /\ \E r \in DOMAIN A : augmented[r][Dim(A)] # b[r]

\* the lowest row k >= col whose entry in column col is largest in magnitude
LowestLargest(aug, col) ==
    CHOOSE k \in col..(Dim(aug) - 1) :
        /\ \A r \in col..(Dim(aug) - 1) : RLe(RAbs(aug[r][col]), RAbs(aug[k][col]))
        /\ \A r \in col..(k - 1) : RLt(RAbs(aug[r][col]), RAbs(aug[k][col]))

\* C13: at every pivot stage i the row moved into position i is the lowest row
\* k >= i whose entry in column i is largest in magnitude among rows i..N-1;
\* rows i and k are exchanged, and a swap record naming them is emitted, if and
\* only if k # i, and no other row moves.
C13_PivotIsLowestLargest ==
    [][pc = "pivot" =>
          LET k == LowestLargest(augmented, i)
          IN  /\ augmented'[i] = augmented[k]
              /\ augmented'[k] = augmented[i]
              /\ \A r \in DOMAIN augmented : r \notin {i, k} => augmented'[r] = augmented[r]
              /\ k = i => solSteps' = solSteps
              /\ k # i =>
                    /\ Len(solSteps') = Len(solSteps) + 1
                    /\ SubSeq(solSteps', 1, Len(solSteps)) = solSteps
                    /\ solSteps'[Len(solSteps')].kind = "swap"
                    /\ solSteps'[Len(solSteps')].row = i
                    /\ solSteps'[Len(solSteps')].maxRow = k
                    /\ solSteps'[Len(solSteps')].aug = augmented'
    ]_vars

\* stage 0 of a 3x3 system: rows 1 and 2 tie for the largest entry and beat
\* row 0; row 1 was moved up, row 2 stays
C13_Witness ==
    /\ pc = "eliminate"
    /\ i = 0
    /\ Dim(A) = 3
    /\ solSteps[Len(solSteps)].kind = "swap"
    /\ solSteps[Len(solSteps)].maxRow = 1
    /\ REq(RAbs(augmented[2][0]), RAbs(augmented[0][0]))
    /\ RLt(RAbs(augmented[1][0]), RAbs(augmented[0][0]))

\* the magnitude of x is below the tolerance 1e-10
BelowTol(x) == RLt(RAbs(x), Tol)

\* C14: solve ends in the singular outcome exactly when the pivot selected at
\* some stage i, after the swap, is below 1e-10 in magnitude; it then returns
\* at once (no elimination of stage i or later, no back substitution, no
\* further step), and no pivot by which solve divides, in the elimination of a
\* stage or in back substitution, is ever below 1e-10 in magnitude.
C14_SingularIffSmallPivot ==
    /\ [][pc = "pivot" =>
             /\ pc' = "singular" <=> BelowTol(augmented'[i][i])
             /\ pc' = "singular" => solution' = NoSolution /\ i' = i]_vars
    /\ [](pc = "singular" =>
             /\ solution = NoSolution
             /\ BelowTol(augmented[i][i])
             /\ ~HasRecord(solSteps, "echelon")
             /\ ~HasRecord(solSteps, "back")
             /\ \A k \in 1..Len(solSteps) :
                   solSteps[k].kind = "eliminate" => solSteps[k].stage < i
             /\ ~ENABLED (SolveBegin \/ SolvePivot \/ SolveEliminate \/ SolveBack))
    /\ [](pc = "eliminate" => ~BelowTol(augmented[i][i]))
    /\ [](pc \in {"back", "solved"} =>
             \A r \in DOMAIN augmented : ~BelowTol(augmented[r][r]))

\* the singular outcome at stage 1, after an elimination at stage 0, on a pivot
\* that is not 0
C14_Witness ==
    /\ pc = "singular"
    /\ i = 1
    /\ HasRecord(solSteps, "eliminate")
    /\ RSign(augmented[1][1]) # 0

\* the factor of row k at the stage about to be eliminated
FactorOf(k) == RDiv(augmented[k][i], augmented[i][i])

\* the magnitude of x exceeds the tolerance 1e-10
AboveTol(x) == RLt(Tol, RAbs(x))

\* the records the step appends
Appended == SubSeq(solSteps', Len(solSteps) + 1, Len(solSteps'))

\* the appended records that name row k and stage i as an elimination
RecordsOf(k) ==
    {m \in 1..Len(Appended) :
        Appended[m].kind = "eliminate" /\ Appended[m].row = k /\ Appended[m].stage = i}

\* what an elimination step does to the records and to the rows it does not update
EliminationBookkeeping ==
    /\ SubSeq(solSteps', 1, Len(solSteps)) = solSteps
    /\ \A r \in 0..i : augmented'[r] = augmented[r]
    /\ \A k \in (i + 1)..(Dim(augmented) - 1) :
          IF AboveTol(FactorOf(k))
          THEN Cardinality(RecordsOf(k)) = 1
          ELSE augmented'[k] = augmented[k] /\ RecordsOf(k) = {}
    /\ Len(Appended) =
          Cardinality({k \in (i + 1)..(Dim(augmented) - 1) : AboveTol(FactorOf(k))})
    /\ \A m \in 1..Len(Appended) : \E k \in (i + 1)..(Dim(augmented) - 1) : m \in RecordsOf(k)

\* C15 as stated: at stage i every row k > i whose factor exceeds 1e-10 in
\* magnitude is replaced by row k minus factor times row i, and one record
\* naming k and i is emitted; a row whose factor does not is left unchanged
\* and gets no record; there are as many records as row updates.
C15_RowMinusFactorTimesRow ==
    [][pc = "eliminate" =>
          /\ EliminationBookkeeping
          /\ \A k \in (i + 1)..(Dim(augmented) - 1) :
                AboveTol(FactorOf(k)) =>
                    \A j \in DOMAIN augmented[k] :
                        REq(augmented'[k][j],
                            RSub(augmented[k][j], RMul(FactorOf(k), augmented[i][j])))
    ]_vars

\* C15 amended: the same, the row update being that of the entries in columns
\* i..N (the augmented column included); the entries of row k in the columns
\* before i are left as they are.
C15_RowUpdatedFromPivotColumn ==
    [][pc = "eliminate" =>
          /\ EliminationBookkeeping
          /\ \A k \in (i + 1)..(Dim(augmented) - 1) :
                AboveTol(FactorOf(k)) =>
                    \A j \in DOMAIN augmented[k] :
                        IF j >= i
                        THEN REq(augmented'[k][j],
                                 RSub(augmented[k][j], RMul(FactorOf(k), augmented[i][j])))
                        ELSE augmented'[k][j] = augmented[k][j]
    ]_vars

\* after stage 1 of a 3x3 system: the pivot row kept a non-zero entry in
\* column 0 (its factor at stage 0 was skipped) and row 2 was updated with it
C15_Witness ==
    /\ pc = "back"
    /\ Dim(A) = 3
    /\ RSign(augmented[1][0]) # 0
    /\ Len(solSteps) > 0
    /\ solSteps[Len(solSteps)].kind = "eliminate"
    /\ solSteps[Len(solSteps)].stage = 1
    /\ solSteps[Len(solSteps)].row = 2

----------------------------------------------------------------------------
(* analyzeNodalMethod: the solver's outcome and the interpretation (lines 277-394) *)

\* a Map in which the first solved value is stored under the ground node
VoltagesGroundSolved(c, x) ==
    LET nodes == Nodes(c)
    IN  [id \in {groundNode} \cup {nodes[k].id : k \in 1..Len(nodes)} |->
            IF id = groundNode THEN (IF Len(nodes) > 0 THEN x[0] ELSE Zero)
            ELSE x[NodeIndex(nodes, id)]]

\* lines 290-292: the Map voltages
Voltages(c, x) ==
    LET nodes == Nodes(c)
    IN  [id \in {groundNode} \cup {nodes[k].id : k \in 1..Len(nodes)} |->
            IF id = groundNode THEN Zero ELSE x[NodeIndex(nodes, id)]]

\* voltageSources.findIndex(vs => vs.id === comp.id)
FindIndex(vss, id) ==
    IF \E k \in 1..Len(vss) : vss[k].id = id
    THEN (CHOOSE k \in 1..Len(vss) :
             vss[k].id = id /\ \A m \in 1..(k - 1) : vss[m].id # id) - 1
    ELSE -1

\* lines 317-319: voltage = vA - vB
ComponentVoltage(c, x, comp) ==
    RSub(Voltages(c, x)[comp.nodes[1]], Voltages(c, x)[comp.nodes[2]])

\* a source current reported with its sign changed
ComponentCurrentFlipped(c, x, comp, voltage) ==
    IF comp.type = "Resistor"
    THEN RDiv(voltage, convertToOhms(comp.value, comp.unit))
    ELSE IF comp.type = "VoltageSource" /\ FindIndex(VoltageSources(c), comp.id) >= 0
    THEN RNeg(x[Len(Nodes(c)) + FindIndex(VoltageSources(c), comp.id)])
    ELSE Zero

\* lines 321-328: the current of a component under the given voltage
ComponentCurrent(c, x, comp, voltage) ==
    IF comp.type = "Resistor"
    THEN RDiv(voltage, convertToOhms(comp.value, comp.unit))
    ELSE IF comp.type = "VoltageSource" /\ FindIndex(VoltageSources(c), comp.id) >= 0
    THEN x[Len(Nodes(c)) + FindIndex(VoltageSources(c), comp.id)]
    ELSE Zero

\* lines 330-335: { ...comp, voltage, current, power: Math.abs(voltage * current) }
ComponentRecord(comp, voltage, current) ==
    [id |-> comp.id, type |-> comp.type, nodes |-> comp.nodes, value |-> comp.value,
     unit |-> comp.unit, voltage |-> voltage, current |-> current,
     power |-> RAbs(RMul(voltage, current))]

\* lines 316-335: the result of one component
ComponentResult(c, x, comp) ==
    ComponentRecord(comp, ComponentVoltage(c, x, comp),
                    ComponentCurrent(c, x, comp, ComponentVoltage(c, x, comp)))

\* circuit.components.map of lines 315-336
ComponentResults(c, x) ==
    [k \in 1..Len(c.components) |-> ComponentResult(c, x, c.components[k])]

\* .filter(c => c.type === type).reduce((sum, c) => sum + c.power, 0), from entry k on
RECURSIVE TotalPower(_, _, _)
TotalPower(compResults, type, k) ==
    IF k > Len(compResults) THEN Zero
    ELSE LET rest == TotalPower(compResults, type, k + 1)
         IN  IF compResults[k].type = type THEN RAdd(compResults[k].power, rest) ELSE rest

\* 0.001, the threshold of the energy-balance marker (line 385)
BalanceTol == [n |-> <<1>>, d |-> <<1000>>]

\* line 385: the marker shown by the verification step
BalanceMarker(supplied, dissipated) ==
    IF RLt(RSub(supplied, dissipated), BalanceTol)
    THEN "Balance de energia verificado"
    ELSE "Revisar balance de energia"

\* an interpretation whose verification record comes before the calculations
InterpretationStepsReordered(c, x, recs) ==
    << [title |-> "5. RESOLUCION POR ELIMINACION GAUSSIANA", equations |-> recs],
       [title |-> "6. INTERPRETACION DE RESULTADOS", equations |-> <<>>],
       [title |-> "8. VERIFICACION DE RESULTADOS", equations |-> <<>>],
       [title |-> "7. CALCULO DE CORRIENTES Y POTENCIAS", equations |-> <<>>] >>

\* the verification record of lines 371-392
VerificationStep(dissipated, supplied) ==
    [title |-> "8. VERIFICACION DE RESULTADOS",
     equations |-> <<[dissipated |-> dissipated, supplied |-> supplied,
                      difference |-> RAbs(RSub(supplied, dissipated)),
                      marker |-> BalanceMarker(supplied, dissipated)]>>]

\* the four records pushed by lines 283-392, for the component results given
InterpretationRecords(nodes, vss, x, recs, compResults) ==
    << [title |-> "5. RESOLUCION POR ELIMINACION GAUSSIANA",
        equations |-> recs],
       [title |-> "6. INTERPRETACION DE RESULTADOS",
        equations |-> <<[node |-> groundNode, V |-> Zero]>>
                      \o [k \in 1..Len(nodes) |-> [node |-> nodes[k].id, V |-> x[k - 1]]]
                      \o [k \in 1..Len(vss) |->
                             [source |-> vss[k].id, I |-> x[Len(nodes) + k - 1]]]],
       [title |-> "7. CALCULO DE CORRIENTES Y POTENCIAS",
        equations |-> [k \in 1..Len(compResults) |->
                          [id |-> compResults[k].id, V |-> compResults[k].voltage,
                           I |-> compResults[k].current, P |-> compResults[k].power]]],
       VerificationStep(TotalPower(compResults, "Resistor", 1),
                        TotalPower(compResults, "VoltageSource", 1)) >>

\* the four records pushed by lines 283-392
InterpretationSteps(c, x, recs) ==
    InterpretationRecords(Nodes(c), VoltageSources(c), x, recs, ComponentResults(c, x))

\* an error return that also hands out potentials
AnalyzeReturnErrorPartial ==
    /\ pc = "singular"
    /\ result' = [error |-> "El sistema no tiene solucion unica", steps |-> steps,
                  voltages |-> [id \in {groundNode} |-> Zero]]
    /\ pc' = "returned"
    /\ UNCHANGED <<circuit, steps, A, b, augmented, i, solSteps, solution>>
    /\ UNCHANGED ui

\* lines 279-281: the solver returned null
AnalyzeReturnError ==
    /\ pc = "singular"
    /\ result' = [error |-> "El sistema no tiene solucion unica", steps |-> steps]
    /\ pc' = "returned"
    /\ UNCHANGED <<circuit, steps, A, b, augmented, i, solSteps, solution>>
    /\ UNCHANGED ui

\* lines 283-394: the solver returned a solution
AnalyzeInterpret ==
    /\ pc = "solved"
    /\ steps' = steps \o InterpretationSteps(circuit, solution.x, solSteps)
    /\ result' = [voltages |-> Voltages(circuit, solution.x),
                  componentResults |-> ComponentResults(circuit, solution.x),
                  steps |-> steps',
                  method |-> "Nodal"]
    /\ pc' = "returned"
    /\ UNCHANGED <<circuit, A, b, augmented, i, solSteps, solution>>
    /\ UNCHANGED ui

----------------------------------------------------------------------------
(* Matrix.solve and analyzeNodalMethod as functions of their arguments: the *)
(* same steps, run to the return                                             *)

\* lines 99-102 of stage `stage`, for the row maxRow found by the scan
PivotOutcome(done, stage, maxRow) ==
    IF maxRow # stage
    THEN [aug   |-> SwapRows(done.aug, stage, maxRow),
          steps |-> Append(done.steps,
                           [kind |-> "swap", stage |-> stage, row |-> stage,
                            maxRow |-> maxRow,
                            aug |-> SwapRows(done.aug, stage, maxRow)])]
    ELSE done

\* lines 123-137: the return of a solution x
SolveReturn(done, x) ==
    [solution |-> SolutionOf(x),
     steps |-> done.steps \o <<[kind |-> "echelon", aug |-> done.aug],
                               [kind |-> "back", x |-> x]>>]

RECURSIVE SolveLoop(_, _)

\* lines 104-121 of stage `stage`, after its swap
SolveStage(done, stage) ==
    IF IsSingularPivot(done.aug, stage)
    THEN [solution |-> NoSolution, steps |-> done.steps]
    ELSE SolveLoop(EliminateBelow(done, done.aug[stage][stage], stage, stage + 1),
                   stage + 1)

\* the loop of lines 90-121 from stage `stage` on, and what follows it
SolveLoop(done, stage) ==
    IF stage >= Dim(done.aug)
    THEN SolveReturn(done, BackSubstitute(done.aug, [r \in DOMAIN done.aug |-> Zero],
                                          Dim(done.aug) - 1))
    ELSE SolveStage(PivotOutcome(done, stage, PivotRow(done.aug, stage)), stage)

\* Matrix.solve(b) on the matrix M: { solution, steps }
solve(M, rhs) ==
    SolveLoop([aug |-> Augment(M, rhs),
               steps |-> <<[kind |-> "initial", aug |-> Augment(M, rhs)]>>], 0)

\* lines 279-394: the value returned for what solve returned
AnalysisReturn(c, assembly, solved) ==
    IF solved.solution.null
    THEN [error |-> "El sistema no tiene solucion unica", steps |-> assembly]
    ELSE [voltages |-> Voltages(c, solved.solution.x),
          componentResults |-> ComponentResults(c, solved.solution.x),
          steps |-> assembly \o InterpretationSteps(c, solved.solution.x, solved.steps),
          method |-> "Nodal"]

\* analyzeNodalMethod(circuit)
analyzeNodalMethod(c) ==
    AnalysisReturn(c, AssemblySteps(c), solve(AssembleA(c), AssembleB(c)))

----------------------------------------------------------------------------
(* The circuits analysed *)

Node(id) == [id |-> id]

Comp(id, type, n1, n2, value, unit) ==
    [id |-> id, type |-> type, nodes |-> <<n1, n2>>, value |-> value, unit |-> unit]

\* the exercises of lines 405-492
exercises ==
    << [name |-> "Ejercicio 1",
        nodes |-> <<Node("n1"), Node("n2"), Node("n3"), Node("gnd")>>,
        components |-> <<Comp("V1", "VoltageSource", "n1", "gnd", Num(50), "V"),
                         Comp("R1", "Resistor", "n1", "n2", Num(100), "ohm"),
                         Comp("R2", "Resistor", "n2", "gnd", Num(60), "ohm"),
                         Comp("R3", "Resistor", "n2", "n3", Num(120), "ohm"),
                         Comp("R4", "Resistor", "n3", "gnd", Num(400), "ohm")>>],
       [name |-> "Ejercicio 2",
        nodes |-> <<Node("n1"), Node("n2"), Node("gnd")>>,
        components |-> <<Comp("V1", "VoltageSource", "n1", "gnd", Num(10), "V"),
                         Comp("R1", "Resistor", "n1", "n2", Num(2), "kohm"),
                         Comp("R2", "Resistor", "n2", "gnd", Num(3), "kohm"),
                         Comp("R3", "Resistor", "n2", "gnd", Num(2), "kohm")>>],
       [name |-> "Ejercicio 3",
        nodes |-> <<Node("n1"), Node("n2"), Node("n3"), Node("gnd")>>,
        components |-> <<Comp("V1", "VoltageSource", "n1", "gnd", Num(24), "V"),
                         Comp("R1", "Resistor", "n1", "n2", Num(5), "kohm"),
                         Comp("R2", "Resistor", "n2", "n3", Num(4), "kohm"),
                         Comp("R3", "Resistor", "n3", "gnd", Num(2), "kohm"),
                         Comp("R4", "Resistor", "n2", "gnd", Num(6), "kohm"),
                         Comp("R5", "Resistor", "n3", "gnd", Num(4), "kohm"),
                         Comp("R6", "Resistor", "n3", "gnd", Num(2), "kohm")>>],
       [name |-> "Ejercicio 4",
        nodes |-> <<Node("n1"), Node("n2"), Node("n3"), Node("gnd")>>,
        components |-> <<Comp("V1", "VoltageSource", "n1", "gnd", Num(70), "V"),
                         Comp("R1", "Resistor", "n1", "n2", Num(10), "ohm"),
                         Comp("R2", "Resistor", "n2", "gnd", Num(30), "ohm"),
                         Comp("R3", "Resistor", "n2", "n3", Num(40), "ohm"),
                         Comp("R4", "Resistor", "n3", "gnd", Num(16), "ohm"),
                         Comp("R5", "Resistor", "n3", "gnd", Num(6), "ohm")>>],
       [name |-> "Ejercicio 5",
        nodes |-> <<Node("n1"), Node("n2"), Node("n3"), Node("gnd")>>,
        components |-> <<Comp("V1", "VoltageSource", "n1", "gnd", Num(12), "V"),
                         Comp("R1", "Resistor", "n1", "n2", Num(220), "ohm"),
                         Comp("R2", "Resistor", "n2", "gnd", Num(380), "ohm"),
                         Comp("R3", "Resistor", "n2", "n3", Num(1), "kohm"),
                         Comp("R4", "Resistor", "n3", "gnd", Frac(3, 2), "kohm")>>] >>

\* Example 2 as section 8 of the specification declares it: a node n3 that no
\* component touches
Example2Declared ==
    [name |-> "Example 2 (declared)",
     nodes |-> <<Node("n1"), Node("n2"), Node("n3"), Node("gnd")>>,
     components |-> exercises[2].components]

MaxOhms == 2

MaxVolts == 2

\* the resistances tried in the voltage divider: ordinary ones, 10^10 ohm and
\* above (conductance at or below the tolerance), 10^-10 ohm and below
DividerOhms ==
    {Num(k) : k \in 1..MaxOhms}
        \cup {Frac(1, 2), Num(4000), Huge, RMul(Num(3), Huge), RInv(Huge),
              RInv(RMul(Num(3), Huge)), RInv(RAdd(Huge, Num(1))), RSub(Huge, Num(1))}

\* Example 1 of the specification: V1 = 12 V from n1 to gnd, R1 from n1 to gnd
Divider(R, unit) ==
    [name |-> "Example 1",
     nodes |-> <<Node("n1"), Node("gnd")>>,
     components |-> <<Comp("V1", "VoltageSource", "n1", "gnd", Num(12), "V"),
                      Comp("R1", "Resistor", "n1", "gnd", R, unit)>>]

DividerCircuits ==
    {Divider(R, "ohm") : R \in DividerOhms} \cup {Divider(Num(k), "kohm") : k \in 1..MaxOhms}

NodeIds == {"n1", "n2", "gnd"}

Terminals == {t \in NodeIds \X NodeIds : t[1] # t[2]}

\* the ground node last, first and in the middle of the declaration
NodeOrders ==
    { <<Node("n1"), Node("n2"), Node("gnd")>>,
      <<Node("gnd"), Node("n1"), Node("n2")>>,
      <<Node("n1"), Node("gnd"), Node("n2")>> }

ResistorsNamed(id) ==
    {Comp(id, "Resistor", t[1], t[2], Num(k), "ohm") : t \in Terminals, k \in 1..MaxOhms}

SourcesNamed(id) ==
    {Comp(id, "VoltageSource", t[1], t[2], Num(k), "V") : t \in Terminals, k \in 1..MaxVolts}

CurrentSourcesNamed(id) ==
    {Comp(id, "CurrentSource", t[1], t[2], Num(1), "A") : t \in Terminals}

Parts(id) == ResistorsNamed(id) \cup SourcesNamed(id) \cup CurrentSourcesNamed(id)

\* every circuit of one or two components on n1, n2 and ground
SmallCircuits ==
    {[name |-> "small", nodes |-> o, components |-> cs] :
        o \in NodeOrders,
        cs \in {<<p>> : p \in Parts("C1")}
                   \cup {<<p, q>> : p \in Parts("C1"), q \in Parts("C2")}}

\* two voltage sources and a resistor, each across any pair of nodes
TwoSourceCircuits ==
    {[name |-> "two sources",
      nodes |-> <<Node("n1"), Node("n2"), Node("gnd")>>,
      components |-> <<v1, v2, r>>] :
        v1 \in SourcesNamed("V1"), v2 \in SourcesNamed("V2"), r \in ResistorsNamed("R1")}

\* a source of 10^10 V across one resistor of 10^10 ohm or more: the conductance
\* is at or below the tolerance, the power in the resistor is not small
HighVoltageDividers ==
    {[name |-> "high voltage divider",
      nodes |-> <<Node("n1"), Node("gnd")>>,
      components |-> <<Comp("V1", "VoltageSource", "n1", "gnd", Huge, "V"),
                       Comp("R1", "Resistor", "n1", "gnd", R, "ohm")>>] :
        R \in {Huge, RMul(Num(3), Huge), RSub(Huge, Num(1))}}

\* a voltage source whose two terminals are the same node, and a resistor
LoopedSourceCircuits ==
    {[name |-> "looped source",
      nodes |-> <<Node("n1"), Node("n2"), Node("gnd")>>,
      components |-> <<Comp("V1", "VoltageSource", t, t, Num(k), "V"), r>>] :
        t \in NodeIds, k \in 1..MaxVolts, r \in ResistorsNamed("R1")}

\* the sequence s with x put in after its first k entries
InsertAt(s, k, x) == SubSeq(s, 1, k) \o <<x>> \o SubSeq(s, k + 1, Len(s))

\* solvable circuits of sources and resistors on n1, n2 and ground
SolvableParts ==
    {<<Comp("V1", "VoltageSource", "n1", "gnd", Num(k), "V"),
       Comp("R1", "Resistor", "n1", "n2", Num(1), "ohm"),
       Comp("R2", "Resistor", "n2", "gnd", Num(2), "ohm")>> : k \in 1..MaxVolts}
    \cup
    {<<Comp("R1", "Resistor", "n2", "gnd", Num(1), "ohm"),
       Comp("V1", "VoltageSource", "n1", "gnd", Num(k), "V"),
       Comp("V2", "VoltageSource", "n2", "n1", Num(1), "V")>> : k \in 1..MaxVolts}

\* current sources of 1 A and 5 A across any pair of nodes
CurrentSourcesWide ==
    {Comp("I1", "CurrentSource", t[1], t[2], Num(k), "A") : t \in Terminals, k \in {1, 5}}

\* a solvable circuit with one current source declared at any position
CurrentSourceCircuits ==
    {[name |-> "with current source",
      nodes |-> <<Node("n1"), Node("n2"), Node("gnd")>>,
      components |-> InsertAt(parts, k, cs)] :
        parts \in SolvableParts, k \in 0..3, cs \in CurrentSourcesWide}

Circuits ==
    {exercises[k] : k \in 1..Len(exercises)} \cup {Example2Declared}
        \cup DividerCircuits \cup SmallCircuits \cup TwoSourceCircuits
        \cup HighVoltageDividers \cup LoopedSourceCircuits \cup CurrentSourceCircuits

Init ==
    /\ circuit \in Circuits
    /\ pc = "start"
    /\ steps = <<>>
    /\ A = <<>>
    /\ b = <<>>
    /\ augmented = <<>>
    /\ i = 0
    /\ solSteps = <<>>
    /\ solution = NoSolution
    /\ result = NoResult
    /\ UiAtRest

Next ==
    \/ AnalyzeAssemble
    \/ SolveBegin
    \/ SolvePivot
    \/ SolveEliminate
    \/ SolveBack
    \/ AnalyzeReturnError
    \/ AnalyzeInterpret

Spec == Init /\ [][Next]_vars

----------------------------------------------------------------------------
(* The component CircuitAnalysisPro (lines 400-615, 692-716) *)

MaxDownloads == 2

\* no call of analyzeNodalMethod or of Matrix.solve is in progress between two events
EngineAtRest ==
    /\ circuit = NoCircuit
    /\ pc = "idle"
    /\ steps = <<>>
    /\ A = <<>>
    /\ b = <<>>
    /\ augmented = <<>>
    /\ i = 0
    /\ solSteps = <<>>
    /\ solution = NoSolution
    /\ result = NoResult

engine == <<circuit, pc, steps, A, b, augmented, i, solSteps, solution, result>>

\* the buttons of lines 698-716 are rendered: results && !results.error
ShowsResults == results # NoResult /\ "error" \notin DOMAIN results

\* a selection that leaves the results of the previous exercise in place
SelectExerciseKeepingResults(k) ==
    /\ selectedExercise' = k
    /\ UNCHANGED <<results, showSteps, downloads>>
    /\ UNCHANGED engine

\* lines 611-614: onClick of the button of exercise k
SelectExercise(k) ==
    /\ selectedExercise' = k
    /\ results' = NoResult
    /\ UNCHANGED <<showSteps, downloads>>
    /\ UNCHANGED engine

\* lines 494-498
handleAnalyze ==
    /\ results' = analyzeNodalMethod(exercises[selectedExercise])
    /\ UNCHANGED <<selectedExercise, showSteps, downloads>>
    /\ UNCHANGED engine

\* line 716: onClick of the toggle, rendered with the results
ToggleSteps ==
    /\ ShowsResults
    /\ showSteps' = ~showSteps
    /\ UNCHANGED <<selectedExercise, results, downloads>>
    /\ UNCHANGED engine

\* lines 500-578: nothing without results; otherwise the report of the selected
\* exercise is downloaded as Ejercicio_<selectedExercise>_Desarrollo_Completo.txt
handleExport ==
    /\ Len(downloads) < MaxDownloads
    /\ downloads' =
          IF results = NoResult THEN downloads
          ELSE Append(downloads, [file |-> selectedExercise,
                                  name |-> exercises[selectedExercise].name,
                                  method |-> results.method])
    /\ UNCHANGED <<selectedExercise, results, showSteps>>
    /\ UNCHANGED engine

InitUI == EngineAtRest /\ UiAtRest

NextUI ==
    \/ \E k \in 1..Len(exercises) : SelectExercise(k)
    \/ handleAnalyze
    \/ ToggleSteps
    \/ handleExport

SpecUI == InitUI /\ [][NextUI]_vars

----------------------------------------------------------------------------
(* Properties of analyzeNodalMethod *)

Returned == pc = "returned"

Succeeded == Returned /\ "voltages" \in DOMAIN result

Failed == Returned /\ "error" \in DOMAIN result

\* C2 as stated: the Example 2 circuit with the node set n1, n2, n3, gnd is
\* analysed successfully, with V(n1) = 10 V and V(n2) = 3.75 V.
C2_Example2DeclaredSucceeds ==
    (Returned /\ circuit = Example2Declared) =>
        /\ Succeeded
        /\ REq(result.voltages["n1"], Num(10))
        /\ REq(result.voltages["n2"], Frac(375, 100))

\* C2 amended: the Example 2 circuit with the node set n1, n2, gnd (exercise 2
\* of the source) is analysed successfully, with V(n1) = 10 V and
\* V(n2) = 10 * (R2||R3) / (R1 + R2||R3) = 3.75 V; with the untouched node n3
\* declared as well, the analysis returns the error outcome.
C2_Example2Succeeds ==
    /\ (Returned /\ circuit = exercises[2]) =>
          /\ Succeeded
          /\ REq(result.voltages["n1"], Num(10))
          /\ REq(result.voltages["n2"],
                 LET R1  == Num(2000)
                     R23 == RDiv(RMul(Num(3000), Num(2000)), RAdd(Num(3000), Num(2000)))
                 IN  RDiv(RMul(Num(10), R23), RAdd(R1, R23)))
          /\ REq(result.voltages["n2"], Frac(375, 100))
    /\ (Returned /\ circuit = Example2Declared) => Failed

C2_Witness == Succeeded /\ circuit = exercises[2]

SumPower(type) == TotalPower(result.componentResults, type, 1)

HasType(c, type) == \E k \in 1..Len(c.components) : c.components[k].type = type

\* C3: in every successful result, the powers of the resistors and the powers
\* of the voltage sources add up to the same total, within 0.001.
C3_EnergyBalance ==
    (Succeeded /\ ~HasType(circuit, "CurrentSource")) =>
        RLe(RAbs(RSub(SumPower("Resistor"), SumPower("VoltageSource"))), Frac(1, 1000))

\* two voltage sources across the same pair of nodes, with different values
ConflictingSources(c) ==
    \E k, m \in 1..Len(c.components) :
        /\ k # m
        /\ c.components[k].type = "VoltageSource"
        /\ c.components[m].type = "VoltageSource"
        /\ {c.components[k].nodes[1], c.components[k].nodes[2]}
               = {c.components[m].nodes[1], c.components[m].nodes[2]}
        /\ ~REq(c.components[k].value, c.components[m].value)

\* C4: a circuit with two voltage sources of different values across the same
\* pair of nodes is answered with the error outcome, never with numbers.
C4_ConflictingSourcesSingular ==
    (Returned /\ ConflictingSources(circuit)) =>
        /\ Failed
        /\ "voltages" \notin DOMAIN result
        /\ "componentResults" \notin DOMAIN result
        /\ solution = NoSolution

\* two sources from n1 to ground of different values, and a resistor elsewhere
C4_Witness ==
    /\ Failed
    /\ ConflictingSources(circuit)
    /\ HasType(circuit, "Resistor")
    /\ \E k \in 1..Len(circuit.components) :
          /\ circuit.components[k].type = "VoltageSource"
          /\ circuit.components[k].nodes = <<"n1", "gnd">>

\* C5: when the solver reports a singular system the analysis returns (it is
\* never stuck), with an error and the step list and with neither potentials
\* nor component results; a successful return carries no error.
C5_SingularIsTypedOutcome ==
    /\ pc = "singular" => ENABLED AnalyzeReturnError
    /\ (Returned /\ solution = NoSolution) =>
          /\ DOMAIN result = {"error", "steps"}
          /\ result.steps = steps
    /\ (Returned /\ solution # NoSolution) =>
          /\ "error" \notin DOMAIN result
          /\ {"voltages", "componentResults", "steps"} \subseteq DOMAIN result

C5_Witness == Failed /\ solution = NoSolution /\ Len(result.steps) > 0

\* C6: when the analysis fails as singular, the returned steps hold the
\* assembly records and every record the solver had produced (the initial
\* augmented matrix, the swaps, the eliminations).
C6_FailureKeepsSolverRecords ==
    Failed =>
        /\ \A k \in 1..Len(AssemblySteps(circuit)) :
              k <= Len(result.steps) /\ result.steps[k] = AssemblySteps(circuit)[k]
        /\ \A m \in 1..Len(solSteps) :
              \E k \in 1..Len(result.steps) :
                  /\ result.steps[k].title = "5. RESOLUCION POR ELIMINACION GAUSSIANA"
                  /\ m <= Len(result.steps[k].equations)
                  /\ result.steps[k].equations[m] = solSteps[m]

\* the phase a step record belongs to: 1 circuit identification, 2 conductance
\* conversion, 3 equation assembly, 4 matrix display, 5 elimination,
\* 6 interpretation, 7 per-component calculation, 8 verification
Phase(step) ==
    CASE step.title = "1. IDENTIFICACION Y ANALISIS DEL CIRCUITO" -> 1
      [] step.title = "2. CONVERSION A CONDUCTANCIAS" -> 2
      [] step.title = "3. PLANTEAMIENTO DE ECUACIONES NODALES" -> 3
      [] step.title = "4. SISTEMA MATRICIAL [A][x] = [b]" -> 4
      [] step.title = "5. RESOLUCION POR ELIMINACION GAUSSIANA" -> 5
      [] step.title = "6. INTERPRETACION DE RESULTADOS" -> 6
      [] step.title = "7. CALCULO DE CORRIENTES Y POTENCIAS" -> 7
      [] step.title = "8. VERIFICACION DE RESULTADOS" -> 8
      [] OTHER -> 0

PhasesInOrder(list) ==
    \A k, m \in 1..Len(list) : k < m => Phase(list[k]) <= Phase(list[m])

\* C7: the steps of a successful analysis hold a record of each of the eight
\* phases, and no record of a later phase precedes one of an earlier phase
\* (neither in the result nor while the list is built).
C7_TraceComplete ==
    /\ PhasesInOrder(steps)
    /\ Succeeded =>
          /\ \A ph \in 1..8 : \E k \in 1..Len(result.steps) : Phase(result.steps[k]) = ph
          /\ PhasesInOrder(result.steps)
          /\ \A k \in 1..Len(result.steps) : Phase(result.steps[k]) # 0

C7_Witness == Succeeded /\ Len(result.steps) = 8 /\ HasRecord(solSteps, "eliminate")

\* C8: every successful result maps the ground node to exactly 0.
C8_GroundIsZero ==
    Succeeded =>
        /\ groundNode \in DOMAIN result.voltages
        /\ result.voltages[groundNode] = Zero

\* ground declared first, and a solved potential that is not 0 at index 0
C8_Witness ==
    /\ Succeeded
    /\ circuit.nodes[1].id = groundNode
    /\ RSign(solution.x[0]) # 0
    /\ result.voltages[groundNode] = Zero

\* the conductances of the resistors between nodes p and q, added up from the k-th on
RECURSIVE SumBetween(_, _, _, _)
SumBetween(conds, p, q, k) ==
    IF k > Len(conds) THEN Zero
    ELSE LET rest == SumBetween(conds, p, q, k + 1)
         IN  IF {conds[k].nodes[1], conds[k].nodes[2]} = {p, q}
             THEN RAdd(conds[k].G, rest) ELSE rest

\* the conductances of the resistors with exactly one end at node p, added up
RECURSIVE SumAt(_, _, _)
SumAt(conds, p, k) ==
    IF k > Len(conds) THEN Zero
    ELSE LET rest == SumAt(conds, p, k + 1)
         IN  IF p \in {conds[k].nodes[1], conds[k].nodes[2]}
                   /\ conds[k].nodes[1] # conds[k].nodes[2]
             THEN RAdd(conds[k].G, rest) ELSE rest

Assembled == circuit # NoCircuit /\ pc # "start"

\* the resistors between two distinct nodes other than ground
InnerResistors(c) ==
    {k \in 1..Len(Conductances(c)) :
        /\ Conductances(c)[k].nodes[1] # Conductances(c)[k].nodes[2]
        /\ groundNode \notin {Conductances(c)[k].nodes[1], Conductances(c)[k].nodes[2]}}

\* C9 as stated: for a resistor of conductance G between non-ground nodes a
\* and b, A[a][b] = A[b][a] = -G, and A[a][a] and A[b][b] include +G.
C9_StampIsMinusG ==
    Assembled =>
        \A k \in InnerResistors(circuit) :
            LET r == Conductances(circuit)[k]
                a == NodeIndex(Nodes(circuit), r.nodes[1])
                c == NodeIndex(Nodes(circuit), r.nodes[2])
            IN  /\ REq(A[a][c], RNeg(r.G))
                /\ REq(A[c][a], RNeg(r.G))
                /\ RLe(r.G, A[a][a])
                /\ RLe(r.G, A[c][c])

\* C9 amended: for a resistor of conductance G between non-ground nodes a and
\* b, A[a][b] = A[b][a] = minus the sum of the conductances of all resistors
\* between a and b (-G when it is the only one), and A[a][a] and A[b][b] are
\* the sums of the conductances of the resistors at a and at b, G among them.
C9_StampIsSymmetric ==
    Assembled =>
        \A k \in InnerResistors(circuit) :
            LET conds == Conductances(circuit)
                r == conds[k]
                a == NodeIndex(Nodes(circuit), r.nodes[1])
                c == NodeIndex(Nodes(circuit), r.nodes[2])
                alone == \A m \in InnerResistors(circuit) :
                            m # k => {conds[m].nodes[1], conds[m].nodes[2]}
                                        # {r.nodes[1], r.nodes[2]}
            IN  /\ REq(A[a][c], A[c][a])
                /\ REq(A[a][c], RNeg(SumBetween(conds, r.nodes[1], r.nodes[2], 1)))
                /\ alone => REq(A[a][c], RNeg(r.G))
                /\ REq(A[a][a], SumAt(conds, r.nodes[1], 1))
                /\ REq(A[c][c], SumAt(conds, r.nodes[2], 1))
                /\ RLe(r.G, A[a][a])
                /\ RLe(r.G, A[c][c])

\* two resistors of different values in parallel between n1 and n2
C9_Witness ==
    /\ Assembled
    /\ Cardinality(InnerResistors(circuit)) = 2
    /\ ~REq(Conductances(circuit)[1].G, Conductances(circuit)[2].G)
    /\ REq(A[0][1], RNeg(RAdd(Conductances(circuit)[1].G, Conductances(circuit)[2].G)))

IsDivider(c) == c.name = "Example 1"

DividerR(c) == convertToOhms(c.components[2].value, c.components[2].unit)

DividerHolds ==
    /\ Succeeded
    /\ REq(result.voltages["n1"], Num(12))
    /\ REq(solution.x[Len(Nodes(circuit)) + 0], RDiv(Num(-12), DividerR(circuit)))
    /\ REq(result.componentResults[1].current, RDiv(Num(-12), DividerR(circuit)))

\* C10 as stated: for every positive R the voltage divider is analysed
\* successfully, with V(n1) = 12 and the source current
\* (solution[numNodes + 0], and V1's component current) equal to -12 / R.
C10_DividerAnyR ==
    (Returned /\ IsDivider(circuit)) => DividerHolds

\* C10 amended: the same for every R with 1e-10 ohm < R < 1e10 ohm.
C10_DividerOrdinaryR ==
    (Returned /\ IsDivider(circuit)
        /\ RLt(Tol, DividerR(circuit)) /\ RLt(DividerR(circuit), Huge)) => DividerHolds

\* a divider with R1 = 2 kohm, solved after a row swap
C10_Witness ==
    /\ Succeeded
    /\ IsDivider(circuit)
    /\ REq(DividerR(circuit), Num(2000))
    /\ HasRecord(solSteps, "swap")
    /\ REq(solution.x[1], Frac(-12, 2000))

----------------------------------------------------------------------------
(* The verification step *)

\* the marker of the verification record, the last of the returned steps
ReportedMarker == result.steps[Len(result.steps)].equations[1].marker

\* C11: the verification step shows the failure marker exactly when
\* |supplied - dissipated| exceeds 0.001 and the pass marker otherwise, and the
\* full successful result is returned whichever marker is shown.
C11_MarkerFollowsAbsoluteDifference ==
    Succeeded =>
        /\ ReportedMarker =
              IF RGt(RAbs(RSub(SumPower("VoltageSource"), SumPower("Resistor"))), BalanceTol)
              THEN "Revisar balance de energia"
              ELSE "Balance de energia verificado"
        /\ DOMAIN result = {"voltages", "componentResults", "steps", "method"}
        /\ Len(result.componentResults) = Len(circuit.components)

----------------------------------------------------------------------------
(* The stamps of the voltage sources *)

\* the rows (and columns) of the terminals of source vs that are not ground
TerminalRows(c, vs) ==
    {NodeIndex(Nodes(c), vs.nodes[t]) : t \in {t \in {1, 2} : vs.nodes[t] # groundNode}}

\* the size of the system, the right-hand side, and the entries of the column
\* and of the row of every source away from its terminals
SourceStampFrame(c) ==
    LET numNodes == Len(Nodes(c))
        vss == VoltageSources(c)
    IN  /\ DOMAIN A = 0..(numNodes + Len(vss) - 1)
        /\ \A r \in DOMAIN A : DOMAIN A[r] = 0..(numNodes + Len(vss) - 1)
        /\ DOMAIN b = DOMAIN A
        /\ \A r \in 0..(numNodes - 1) : REq(b[r], Zero)
        /\ \A s \in 1..Len(vss) :
              /\ REq(b[numNodes + s - 1], vss[s].value)
              /\ \A r \in DOMAIN A :
                    r \notin TerminalRows(c, vss[s]) =>
                        /\ REq(A[r][numNodes + s - 1], Zero)
                        /\ REq(A[numNodes + s - 1][r], Zero)

\* the four coefficients of source s: +1 at its positive terminal P, -1 at its
\* negative terminal M, in its column and in its row
SourceStamp(c, s) ==
    LET numNodes == Len(Nodes(c))
        vs == VoltageSources(c)[s]
        sourceCol == numNodes + s - 1
    IN  /\ vs.nodes[1] # groundNode =>
              /\ REq(A[NodeIndex(Nodes(c), vs.nodes[1])][sourceCol], Num(1))
              /\ REq(A[sourceCol][NodeIndex(Nodes(c), vs.nodes[1])], Num(1))
        /\ vs.nodes[2] # groundNode =>
              /\ REq(A[NodeIndex(Nodes(c), vs.nodes[2])][sourceCol], Num(-1))
              /\ REq(A[sourceCol][NodeIndex(Nodes(c), vs.nodes[2])], Num(-1))

\* C16 as stated: for every voltage source s with terminals P and M and
\* sourceCol = numNodes + s, A[P][sourceCol] = 1 and A[sourceCol][P] = 1 if P
\* is not ground, A[M][sourceCol] = -1 and A[sourceCol][M] = -1 if M is not
\* ground, a ground terminal contributes nothing, b[sourceCol] is the source
\* value, the b of every node row is 0, and A is square of size
\* numNodes + numVoltageSources.
C16_SourceStamps ==
    Assembled =>
        /\ SourceStampFrame(circuit)
        /\ \A s \in 1..Len(VoltageSources(circuit)) : SourceStamp(circuit, s)

\* C16 amended: the same for every voltage source whose terminals P and M are
\* different nodes; for a source with P = M not ground, A[P][sourceCol] = 1
\* and A[sourceCol][P] = -1.
C16_SourceStampsDistinctTerminals ==
    Assembled =>
        /\ SourceStampFrame(circuit)
        /\ \A s \in 1..Len(VoltageSources(circuit)) :
              LET vs == VoltageSources(circuit)[s]
                  sourceCol == Len(Nodes(circuit)) + s - 1
              IN  IF vs.nodes[1] # vs.nodes[2] THEN SourceStamp(circuit, s)
                  ELSE vs.nodes[1] # groundNode =>
                        /\ REq(A[NodeIndex(Nodes(circuit), vs.nodes[1])][sourceCol], Num(1))
                        /\ REq(A[sourceCol][NodeIndex(Nodes(circuit), vs.nodes[1])], Num(-1))

\* two sources, the second between n2 (positive) and n1 (negative), the first
\* with a terminal at ground
C16_Witness ==
    /\ Assembled
    /\ Len(VoltageSources(circuit)) = 2
    /\ VoltageSources(circuit)[2].nodes = <<"n2", "n1">>
    /\ groundNode \in {VoltageSources(circuit)[1].nodes[1], VoltageSources(circuit)[1].nodes[2]}
    /\ REq(A[3][0], Num(-1))
    /\ REq(A[0][3], Num(-1))
    /\ REq(A[3][1], Num(1))
    /\ REq(b[3], VoltageSources(circuit)[2].value)

----------------------------------------------------------------------------
(* The component results *)

\* how many of the nodes declared before position k are not ground
NodeRank(c, k) == Cardinality({m \in 1..(k - 1) : c.nodes[m].id # groundNode})

\* the potential of node id: 0 for ground, otherwise the solution entry of its
\* place among the declared nodes that are not ground
Potential(c, id) ==
    IF id = groundNode THEN Zero
    ELSE solution.x[NodeRank(c, CHOOSE k \in 1..Len(c.nodes) : c.nodes[k].id = id)]

\* how many of the components declared before position k are voltage sources
SourceRank(c, k) ==
    Cardinality({m \in 1..(k - 1) : c.components[m].type = "VoltageSource"})

\* x and y are the same number (single-limb rationals are in lowest terms)
RSame(x, y) == IF BothSmall(x, y) THEN x = y ELSE REq(x, y)

\* C17: in every successful result there is one component result per component,
\* in declaration order, with voltage = V(first node) - V(second node) on the
\* returned potentials (the i-th non-ground node taking solution[i]), a
\* resistor's current = voltage / R, a voltage source's current =
\* solution[numNodes + its index among the voltage sources] unchanged, and
\* power = |voltage * current| >= 0.
C17_ComponentResults ==
    Succeeded =>
        /\ Len(result.componentResults) = Len(circuit.components)
        /\ \A id \in DOMAIN result.voltages : RSame(result.voltages[id], Potential(circuit, id))
        /\ \A k \in 1..Len(circuit.components) :
              LET comp == circuit.components[k]
                  res  == result.componentResults[k]
              IN  /\ res.id = comp.id /\ res.type = comp.type /\ res.nodes = comp.nodes
                  /\ res.value = comp.value /\ res.unit = comp.unit
                  /\ RSame(res.voltage, RSub(result.voltages[comp.nodes[1]],
                                           result.voltages[comp.nodes[2]]))
                  /\ comp.type = "Resistor" =>
                        RSame(res.current,
                            RDiv(res.voltage, convertToOhms(comp.value, comp.unit)))
                  /\ comp.type = "VoltageSource" =>
                        res.current =
                            solution.x[Len(Nodes(circuit)) + SourceRank(circuit, k)]
                  /\ RSame(res.power, RAbs(RMul(res.voltage, res.current)))
                  /\ RSign(res.power) >= 0

\* two sources then a resistor, the second source and the resistor carrying a
\* current, the second source absorbing power (voltage and current of one sign)
C17_Witness ==
    /\ Succeeded
    /\ Len(circuit.components) = 3
    /\ circuit.components[2].type = "VoltageSource"
    /\ circuit.components[3].type = "Resistor"
    /\ SourceRank(circuit, 2) = 1
    /\ RSign(result.componentResults[2].current) # 0
    /\ RSign(result.componentResults[2].current) = RSign(result.componentResults[2].voltage)
    /\ RSign(result.componentResults[3].current) < 0
    /\ RSign(result.componentResults[3].power) > 0

----------------------------------------------------------------------------
(* The current sources *)

\* the circuit c with its current sources removed
WithoutCurrentSources(c) ==
    [c EXCEPT !.components = SelectSeq(@, LAMBDA x : x.type # "CurrentSource")]

\* the entries of the sequence s that are not current sources
OtherResults(s) == SelectSeq(s, LAMBDA x : x.type # "CurrentSource")

\* every returned result agrees with a run of the same steps to the return
AnalysisAgrees ==
    Returned => result = analyzeNodalMethod(circuit)

\* C18: the current sources of a circuit have no effect on the linear system:
\* A, b, the outcome, the solved potentials, the source currents and the
\* results of the other components are those of the circuit without its
\* current sources; each current source still has a component result, whose
\* current is 0 and not an entry of the solution.
C18_CurrentSourcesIgnored ==
    /\ Assembled =>
          /\ A = AssembleA(WithoutCurrentSources(circuit))
          /\ b = AssembleB(WithoutCurrentSources(circuit))
    /\ Returned =>
          /\ Failed <=> "error" \in DOMAIN analyzeNodalMethod(WithoutCurrentSources(circuit))
          /\ Succeeded =>
                /\ result.voltages =
                       analyzeNodalMethod(WithoutCurrentSources(circuit)).voltages
                /\ solution =
                       solve(AssembleA(WithoutCurrentSources(circuit)),
                             AssembleB(WithoutCurrentSources(circuit))).solution
                /\ OtherResults(result.componentResults) =
                       analyzeNodalMethod(WithoutCurrentSources(circuit)).componentResults
                /\ Len(result.componentResults) = Len(circuit.components)
                /\ \A k \in 1..Len(circuit.components) :
                      circuit.components[k].type = "CurrentSource" =>
                          /\ result.componentResults[k].id = circuit.components[k].id
                          /\ result.componentResults[k].current = Zero

\* a solved circuit whose current source of 5 A is declared before the voltage
\* sources, across two nodes at different potentials
C18_Witness ==
    /\ Succeeded
    /\ circuit.components[1].type = "CurrentSource"
    /\ circuit.components[1].value = Num(5)
    /\ Len(VoltageSources(circuit)) = 2
    /\ RSign(result.componentResults[1].voltage) # 0
    /\ result.componentResults[1].current = Zero
    /\ RSign(solution.x[Len(Nodes(circuit)) + 1]) # 0

----------------------------------------------------------------------------
(* The stored results *)

\* C19: across any sequence of selections, analyses, toggles and exports the
\* stored results are null or the analysis of the selected exercise: a
\* selection clears them in the same action, an analysis stores the analysis
\* of the exercise selected at that moment, and while the results are null an
\* export downloads nothing and changes nothing.
C19_ResultsOfSelectedExercise ==
    /\ [](results = NoResult
            \/ results = analyzeNodalMethod(exercises[selectedExercise]))
    /\ [][selectedExercise' # selectedExercise => results' = NoResult]_vars
    /\ [][(results' # results /\ results' # NoResult) =>
             /\ selectedExercise' = selectedExercise
             /\ results' = analyzeNodalMethod(exercises[selectedExercise])]_vars
    /\ [][results = NoResult => downloads' = downloads]_vars

\* exercise 3 analysed and exported after exercise 5 had been analysed and exported
C19_Witness ==
    /\ selectedExercise = 3
    /\ results = analyzeNodalMethod(exercises[3])
    /\ results # analyzeNodalMethod(exercises[5])
    /\ ~showSteps
    /\ Len(downloads) = 2
    /\ downloads[1].file = 5
    /\ downloads[2].file = 3

====
